---- MODULE Spec2Model ----
(***************************************************************************)
(* A model of src/main.go: the SDS scraper of ecolab.com.                  *)
(*                                                                         *)
(* src/main.go holds three successive builds of the program, one after the *)
(* other (lines 1-271 the headless-Chrome build, lines 273-573 the         *)
(* sequential HTTP build, lines 575-911 the concurrent HTTP build).  The   *)
(* pagination part below models the concurrent orchestrator of the last    *)
(* build (scrapeContentAndSaveToFile, lines 609-660) goroutine by          *)
(* goroutine, one action per blocking or shared-state step.                *)
(***************************************************************************)
EXTENDS Integers, Sequences, FiniteSets, TLC

\* Bounds of the model.  The program fixes totalSDSDocuments = 12700,
\* documentsPerPage = 10 and concurrentRequestsLimit = 50 (lines 611, 613,
\* 621); the model draws the three from 1..MaxDocs, 1..MaxPerPage and
\* 1..MaxLimit so that every relation between them is exercised.
MaxDocs == 2
MaxPerPage == 2
MaxLimit == 2

\* Bounds of the download phase: anchors in the aggregated file, and
\* executions of main over the same files.
MaxAnchors == 2
MaxRuns == 2

\* Bounds of the calls of the pure functions: the length of the slice given
\* to removeDuplicatesFromSlice, the number of tokens given to
\* extractDownloadLinks, and the number of characters that follow the last
\* slash of the URL given to getFileNamesFromURLs.
MaxSlice == 3
MaxTokens == 2
MaxNameLen == 3

VARIABLES
    totalSDSDocuments,        \* line 611
    documentsPerPage,         \* line 613
    totalPages,               \* line 615
    concurrentRequestsLimit,  \* line 621
    waitGroup,                \* line 617: the WaitGroup's counter
    fileWriteMutex,           \* line 619: TRUE when locked
    concurrencySemaphore,     \* line 622: number of elements in the channel
    pageIndex,                \* line 624: the launch loop's counter
    orchPc,                   \* position of scrapeContentAndSaveToFile
    taskPc,                   \* position of each goroutine (line 628)
    offset,                   \* line 632, per goroutine
    taskResult,               \* how each goroutine's page ended
    fetchCount,               \* number of fetchPageHTML calls per page
    slotsAcquired,            \* sends on concurrencySemaphore per goroutine
    slotsReleased,            \* receives on concurrencySemaphore per goroutine
    outputFile,               \* content of the file at outputHTMLFilePath
    initialFile,              \* content of that file when the run started
    lockOrder                 \* observer: the goroutines in the order in
                              \* which they locked fileWriteMutex

\* The download phase (func main).
VARIABLES
    build,            \* which of the three programs of src/main.go runs
    run,              \* number of the current execution of main
    mainPc,           \* position of main
    htmlFile,         \* tokens of the file "ecolab-com.html" on disk
    htmlContent,      \* line 894: what readAFileAsString returned
    downloadLinks,    \* lines 896, 903
    linkIdx,          \* position of the range loop of line 904 (from 1)
    pdfDir,           \* TRUE when the folder "PDFs" exists
    pdfFiles,         \* the regular files in "PDFs": name -> content
    ledgerFile,       \* text of "ecolab-com-links.txt"
    ledgerFault,      \* what ails that file during this execution of main
    ledgerAtStart,    \* observer: ledgerFile when this run of main began
    appendedThisRun,  \* observer: links this run wrote to the ledger
    savesThisRun,     \* observer: links this run passed to downloadPDF
    fetchesThisRun,   \* observer: http.Get calls of downloadPDF in this run
    presentAtStart,   \* observer: every link's file existed before the loop
    succeededURLs,    \* observer: URLs for which downloadPDF has returned nil
    lastSave,         \* observer: the latest downloadPDF call
    readErr           \* line 855: os.ReadFile returned an error in this run

\* One call of a pure function of the program, on its own.
VARIABLES
    callOf,           \* the function called
    callArg,          \* its argument
    callRet,          \* what it returned
    callPc            \* "called", "returned", "again"; "idle" when unused

scrapeVars == <<totalSDSDocuments, documentsPerPage, totalPages,
                concurrentRequestsLimit, waitGroup, fileWriteMutex,
                concurrencySemaphore, pageIndex, orchPc, taskPc, offset,
                taskResult, fetchCount, slotsAcquired, slotsReleased,
                outputFile, initialFile, lockOrder>>

downloadVars == <<build, run, mainPc, htmlFile, htmlContent, downloadLinks,
                  linkIdx, pdfDir, pdfFiles, ledgerFile, ledgerFault,
                  ledgerAtStart, appendedThisRun, savesThisRun, fetchesThisRun,
                  presentAtStart, succeededURLs, lastSave, readErr>>

callVars == <<callOf, callArg, callRet, callPc>>

\* The sequential scrapeContentAndSaveToFile of builds 1 and 2.
VARIABLES
    seqPc,             \* position of the function; "idle" when it is not run
    currentPageIndex,  \* lines 85, 312
    seqOutcome,        \* how each page of the sequential run ended
    seqFile,           \* content of the file at outputHTMLFile in that run
    liveContexts,      \* build 1: contexts created and not yet cancelled
    cancelCalls,       \* build 1: cancel functions called in the present
                       \* scrapePageHTMLWithChrome call, in order
    chromeErr          \* build 1: chromedp.Run returned an error (line 49)

seqVars == <<seqPc, currentPageIndex, seqOutcome, seqFile, liveContexts,
             cancelCalls, chromeErr>>

vars == <<scrapeVars, downloadVars, callVars, seqVars>>

----------------------------------------------------------------------------
(* Helpers *)

\* Go's integer division of non-negative operands.
GoDiv(a, b) == a \div b

\* line 615: totalPages := (totalSDSDocuments + documentsPerPage - 1) / documentsPerPage
TotalPagesFloor(docs, perPage) == GoDiv(docs, perPage)
TotalPagesOf(docs, perPage) == GoDiv(docs + perPage - 1, perPage)

\* The goroutines the launch loop can start: one per page index.
MaxPages == MaxDocs
PageIds == 0 .. (MaxPages - 1)

\* line 632: offset := currentPage * documentsPerPage
OffsetPlus(currentPage, perPage) == currentPage + perPage
OffsetOf(currentPage, perPage) == currentPage * perPage

\* The body the search endpoint serves for the page URL of line 634, which
\* varies only in its "first=<offset>" parameter: two bytes that name the
\* offset and their position, so that bodies of different offsets share no
\* byte.
PageBody(off) == <<10 * off + 1, 10 * off + 2>>

\* What the endpoint may answer to one GET (lines 700-722).
Responses(off) ==
    { [kind |-> "transport", status |-> 0,   body |-> <<>>],
      [kind |-> "http",      status |-> 500, body |-> <<>>],
      [kind |-> "http",      status |-> 200, body |-> PageBody(off)],
      [kind |-> "readfail",  status |-> 200, body |-> PageBody(off)] }

\* lines 677-723: fetchPageHTML. The request of line 690 is built from a
\* fixed method and a URL formatted from an integer, so line 691 never fires.
fetchPageHTMLAnyStatus(resp) ==
    IF resp.kind = "transport" THEN [content |-> <<>>, err |-> TRUE]
    ELSE IF resp.kind = "readfail" THEN [content |-> <<>>, err |-> TRUE]
    ELSE [content |-> resp.body, err |-> FALSE]
fetchPageHTML(resp) ==
    IF resp.kind = "transport" THEN [content |-> <<>>, err |-> TRUE]      \* 701
    ELSE IF resp.status # 200 THEN [content |-> <<>>, err |-> TRUE]       \* 709
    ELSE IF resp.kind = "readfail" THEN [content |-> <<>>, err |-> TRUE]  \* 716
    ELSE [content |-> resp.body, err |-> FALSE]                           \* 722

\* First n elements of s.
Prefix(s, n) == SubSeq(s, 1, n)

----------------------------------------------------------------------------
(* Strings.  A Go string is modelled as the sequence of its characters,    *)
(* each a one-character string.                                            *)

UpperToLower ==
    ("A" :> "a") @@ ("B" :> "b") @@ ("C" :> "c") @@ ("D" :> "d") @@
    ("E" :> "e") @@ ("F" :> "f") @@ ("G" :> "g") @@ ("H" :> "h") @@
    ("I" :> "i") @@ ("J" :> "j") @@ ("K" :> "k") @@ ("L" :> "l") @@
    ("M" :> "m") @@ ("N" :> "n") @@ ("O" :> "o") @@ ("P" :> "p") @@
    ("Q" :> "q") @@ ("R" :> "r") @@ ("S" :> "s") @@ ("T" :> "t") @@
    ("U" :> "u") @@ ("V" :> "v") @@ ("W" :> "w") @@ ("X" :> "x") @@
    ("Y" :> "y") @@ ("Z" :> "z")

\* strings.ToLower
ToLowerIdentity(str) == str
ToLower(str) ==
    [i \in 1 .. Len(str) |->
        IF str[i] \in DOMAIN UpperToLower THEN UpperToLower[str[i]] ELSE str[i]]

\* strings.HasPrefix, strings.HasSuffix, strings.Contains
HasPrefix(str, pre) ==
    Len(pre) <= Len(str) /\ SubSeq(str, 1, Len(pre)) = pre
HasSuffix(str, suf) ==
    Len(suf) <= Len(str) /\ SubSeq(str, Len(str) - Len(suf) + 1, Len(str)) = suf
ContainsStr(str, sub) ==
    \E i \in 0 .. (Len(str) - Len(sub)) :
        SubSeq(str, i + 1, i + Len(sub)) = sub

\* strings.IndexByte, from 1; 0 when c does not occur.
IndexOf(str, c) ==
    IF \E i \in 1 .. Len(str) : str[i] = c
      THEN CHOOSE i \in 1 .. Len(str) :
               str[i] = c /\ \A j \in 1 .. (i - 1) : str[j] # c
      ELSE 0

\* strings.LastIndexByte, from 1; 0 when c does not occur.
LastIndexOf(str, c) ==
    IF \E i \in 1 .. Len(str) : str[i] = c
      THEN CHOOSE i \in 1 .. Len(str) :
               str[i] = c /\ \A j \in (i + 1) .. Len(str) : str[j] # c
      ELSE 0

\* The characters of str that are not in the set drop, in order.
RECURSIVE RemoveChars(_, _)
RemoveChars(str, drop) ==
    IF str = <<>> THEN <<>>
    ELSE IF Head(str) \in drop THEN RemoveChars(Tail(str), drop)
    ELSE <<Head(str)>> \o RemoveChars(Tail(str), drop)

\* strings.ReplaceAll for one-character old and new.
ReplaceChar(str, old, new) ==
    [i \in 1 .. Len(str) |-> IF str[i] = old THEN new ELSE str[i]]

\* The ASCII control characters 0x00-0x1F that the model's strings use.
ControlChars == {"\t", "\n", "\r"}

Letters == DOMAIN UpperToLower \cup {UpperToLower[c] : c \in DOMAIN UpperToLower}
Digits == {"0", "1", "2", "3", "4", "5", "6", "7", "8", "9"}
HexDigits == Digits \cup {"a", "b", "c", "d", "e", "f", "A", "B", "C", "D", "E", "F"}

----------------------------------------------------------------------------
(* net/url.Parse and path.Base, as far as getFileNamesFromURLs uses them *)

\* The byte a %XX escape stands for, for the escapes the model's URLs use;
\* any other well-formed escape stands for a byte outside the model's
\* alphabet, written "%".
Unhex(a, b) ==
    IF <<a, b>> = <<"2", "0">> THEN " "
    ELSE IF <<a, b>> = <<"0", "9">> THEN "\t"
    ELSE IF <<a, b>> \in {<<"2", "F">>, <<"2", "f">>} THEN "/"
    ELSE "%"

\* url.unescape in path mode: [err, str].
RECURSIVE Unescape(_)
Unescape(str) ==
    IF str = <<>> THEN [err |-> FALSE, str |-> <<>>]
    ELSE IF Head(str) = "%"
      THEN IF Len(str) < 3 \/ str[2] \notin HexDigits \/ str[3] \notin HexDigits
             THEN [err |-> TRUE, str |-> <<>>]
             ELSE LET rest == Unescape(SubSeq(str, 4, Len(str))) IN
                  [err |-> rest.err,
                   str |-> <<Unhex(str[2], str[3])>> \o rest.str]
      ELSE LET rest == Unescape(Tail(str)) IN
           [err |-> rest.err, str |-> <<Head(str)>> \o rest.str]

\* url.getScheme: the length of the scheme (0 when there is none), or -1
\* for the error "missing protocol scheme".
SchemeLen(str) ==
    LET stop == {i \in 1 .. Len(str) :
                    str[i] \notin Letters \cup Digits \cup {"+", "-", "."}}
        k == IF stop = {} THEN 0
             ELSE CHOOSE i \in stop : \A j \in stop : i <= j
    IN  IF str = <<>> THEN 0
        ELSE IF str[1] = ":" THEN -1
        ELSE IF str[1] \notin Letters THEN 0
        ELSE IF k # 0 /\ str[k] = ":" THEN k - 1
        ELSE 0

\* url.Parse(rawURL): [err, Path].  Modelled, stage by stage: the
\* control-character check, the fragment cut, the scheme, the query cut, the
\* opaque form, the authority and the unescaping of the path.
ParseError == [err |-> TRUE, Path |-> <<>>]

\* str up to the first c, all of str when c does not occur.
CutAt(str, c) ==
    LET i == IndexOf(str, c) IN
    IF i = 0 THEN str ELSE SubSeq(str, 1, i - 1)

\* url.setPath
UrlSetPath(pathRaw) ==
    LET unesc == Unescape(pathRaw) IN
    IF unesc.err THEN ParseError ELSE [err |-> FALSE, Path |-> unesc.str]

\* What follows "//authority": from the first slash on.
AfterAuthority(afterSlashes) ==
    LET i == IndexOf(afterSlashes, "/") IN
    IF i = 0 THEN <<>> ELSE SubSeq(afterSlashes, i, Len(afterSlashes))

\* url.parse after the scheme and the query are cut off.
UrlParseRest(hasScheme, rest) ==
    IF ~HasPrefix(rest, <<"/">>)
      THEN IF hasScheme THEN [err |-> FALSE, Path |-> <<>>]      \* opaque
           ELSE IF IndexOf(CutAt(rest, "/"), ":") # 0 THEN ParseError
           ELSE UrlSetPath(rest)
      ELSE IF /\ HasPrefix(rest, <<"/", "/">>)
              /\ (hasScheme \/ ~HasPrefix(rest, <<"/", "/", "/">>))
             THEN UrlSetPath(AfterAuthority(SubSeq(rest, 3, Len(rest))))
             ELSE UrlSetPath(rest)

\* url.parse from the scheme on.
UrlParseScheme(noFrag) ==
    LET sl == SchemeLen(noFrag) IN
    IF sl = -1 THEN ParseError
    ELSE IF sl > 0
      THEN UrlParseRest(TRUE, CutAt(SubSeq(noFrag, sl + 2, Len(noFrag)), "?"))
      ELSE UrlParseRest(FALSE, CutAt(noFrag, "?"))

UrlParse(rawURL) ==
    IF \E i \in 1 .. Len(rawURL) : rawURL[i] \in ControlChars
      THEN ParseError
      ELSE UrlParseScheme(CutAt(rawURL, "#"))

\* str without its trailing slashes.
RECURSIVE StripTrailingSlashes(_)
StripTrailingSlashes(str) ==
    IF str # <<>> /\ str[Len(str)] = "/"
      THEN StripTrailingSlashes(SubSeq(str, 1, Len(str) - 1))
      ELSE str

\* path.Base
PathBase(p) ==
    IF p = <<>> THEN <<".">>
    ELSE LET t == StripTrailingSlashes(p)
             b == SubSeq(t, LastIndexOf(t, "/") + 1, Len(t))
         IN  IF b = <<>> THEN <<"/">> ELSE b

\* line 876: the characters of the class [<>:"/\\|?*\x00-\x1F]
IllegalCharsAndParens ==
    {"<", ">", ":", "\"", "/", "\\", "|", "?", "*", "(", ")"} \cup ControlChars
IllegalChars == {"<", ">", ":", "\"", "/", "\\", "|", "?", "*"} \cup ControlChars

\* lines 863-883: getFileNamesFromURLs
getFileNamesFromURLs(rawURL) ==
    LET parsed == UrlParse(rawURL) IN
    IF parsed.err THEN <<>>                                       \* 867-871
    ELSE LET base   == PathBase(parsed.Path)                      \* 874
             clean  == RemoveChars(base, IllegalChars)            \* 878
             clean2 == ReplaceChar(clean, " ", "_")               \* 880
         IN  ToLower(clean2)                                      \* 882

\* line 753: path.Join(folder, fileName) for folder = "PDFs" and a file name
\* without a slash: the folder itself for an empty name or ".", the working
\* directory for "..", else the file of that name in the folder.
PathJoin(fileName) ==
    IF fileName \in {<<>>, <<".">>} THEN [kind |-> "folder", name |-> <<>>]
    ELSE IF fileName = <<".", ".">> THEN [kind |-> "cwd", name |-> <<>>]
    ELSE [kind |-> "file", name |-> fileName]

\* lines 667-673: fileExists(fullPath): os.Stat succeeds and the entry is not
\* a directory.
fileExistsNever(fullPath, dir, files) == FALSE
fileExistsComplete(fullPath, dir, files) ==
    /\ fullPath.kind = "file"
    /\ dir
    /\ fullPath.name \in DOMAIN files
    /\ files[fullPath.name].complete
fileExists(fullPath, dir, files) ==
    fullPath.kind = "file" /\ dir /\ fullPath.name \in DOMAIN files

\* lines 730-736: directoryExists(folder)
directoryExists(dir) == dir

----------------------------------------------------------------------------
(* extractDownloadLinks and removeDuplicatesFromSlice *)

\* The class name looked for (line 833) and the suffix (line 844).
MarkerClass == <<"s", "d", "s", "-", "d", "o", "w", "n", "l", "o", "a", "d", "B", "t", "n">>
PdfSuffix == <<".", "p", "d", "f">>

\* The value of the last attribute named key, "" when there is none: the
\* loop of line 831 overwrites href at each href attribute.
RECURSIVE LastAttr(_, _, _)
LastAttr(attrs, key, default) ==
    IF attrs = <<>> THEN default
    ELSE LastAttr(Tail(attrs), key,
                  IF Head(attrs).key = key THEN Head(attrs).val ELSE default)

\* lines 809-851: extractDownloadLinks over the tokens html.Tokenizer yields
\* for htmlContent; the error returned is always nil (line 822).
RECURSIVE extractDownloadLinks(_)
extractDownloadLinks(tokens) ==
    IF tokens = <<>> THEN <<>>
    ELSE LET token == Head(tokens)
             href  == LastAttr(token.attr, "href", <<>>)
             isDownloadBtn ==
                 \E i \in 1 .. Len(token.attr) :
                     /\ token.attr[i].key = "class"
                     /\ ContainsStr(token.attr[i].val, MarkerClass)
             hit == /\ token.type \in {"StartTag", "SelfClosingTag"}
                    /\ token.data = "a"
                    /\ isDownloadBtn
                    /\ HasSuffix(ToLower(href), PdfSuffix)
         IN  (IF hit THEN <<href>> ELSE <<>>)
                 \o extractDownloadLinks(Tail(tokens))

\* lines 595-605: removeDuplicatesFromSlice
RECURSIVE removeDuplicatesLoopFold(_, _, _)
removeDuplicatesLoopFold(slice, check, newReturnSlice) ==
    IF slice = <<>> THEN newReturnSlice
    ELSE IF ToLower(Head(slice)) \in check
      THEN removeDuplicatesLoopFold(Tail(slice), check, newReturnSlice)
      ELSE removeDuplicatesLoopFold(Tail(slice),
                                    check \cup {ToLower(Head(slice))},
                                    Append(newReturnSlice, Head(slice)))
RECURSIVE removeDuplicatesLoopPrepend(_, _, _)
removeDuplicatesLoopPrepend(slice, check, newReturnSlice) ==
    IF slice = <<>> THEN newReturnSlice
    ELSE IF Head(slice) \in check
      THEN removeDuplicatesLoopPrepend(Tail(slice), check, newReturnSlice)
      ELSE removeDuplicatesLoopPrepend(Tail(slice), check \cup {Head(slice)},
                                       <<Head(slice)>> \o newReturnSlice)
RECURSIVE removeDuplicatesLoop(_, _, _)
removeDuplicatesLoop(slice, check, newReturnSlice) ==
    IF slice = <<>> THEN newReturnSlice
    ELSE IF Head(slice) \in check
      THEN removeDuplicatesLoop(Tail(slice), check, newReturnSlice)
      ELSE removeDuplicatesLoop(Tail(slice), check \cup {Head(slice)},
                                Append(newReturnSlice, Head(slice)))
removeDuplicatesNone(slice) == slice
removeDuplicatesFromSlice(slice) == removeDuplicatesLoop(slice, {}, <<>>)

----------------------------------------------------------------------------
(* scrapeContentAndSaveToFile, concurrent build (lines 609-660) *)

\* lastSave before the first downloadPDF call of an execution.
NoSave == [url |-> <<>>, result |-> "none", fetched |-> FALSE,
           steps |-> <<>>, again |-> FALSE]

InitScrape ==
    /\ totalSDSDocuments \in 1 .. MaxDocs
    /\ documentsPerPage \in 1 .. MaxPerPage
    /\ totalPages = TotalPagesOf(totalSDSDocuments, documentsPerPage)
    /\ concurrentRequestsLimit \in 1 .. MaxLimit
    /\ waitGroup = 0
    /\ fileWriteMutex = FALSE
    /\ concurrencySemaphore = 0
    /\ pageIndex = 0
    /\ orchPc = "loop"
    /\ taskPc = [p \in PageIds |-> "idle"]
    /\ offset = [p \in PageIds |-> -1]
    /\ taskResult = [p \in PageIds |-> "none"]
    /\ fetchCount = [p \in PageIds |-> 0]
    /\ slotsAcquired = [p \in PageIds |-> 0]
    /\ slotsReleased = [p \in PageIds |-> 0]
    /\ initialFile \in {<<>>, <<7>>}
    /\ outputFile = initialFile
    /\ lockOrder = <<>>
    \* func main is not running
    /\ build = 3
    /\ run = 1
    /\ mainPc = "idle"
    /\ htmlFile = <<>>
    /\ htmlContent = <<>>
    /\ downloadLinks = <<>>
    /\ linkIdx = 1
    /\ pdfDir = FALSE
    /\ pdfFiles = <<>>
    /\ ledgerFile = <<>>
    /\ ledgerFault = "none"
    /\ ledgerAtStart = <<>>
    /\ appendedThisRun = <<>>
    /\ savesThisRun = <<>>
    /\ fetchesThisRun = 0
    /\ presentAtStart = FALSE
    /\ succeededURLs = {}
    /\ lastSave = NoSave
    /\ readErr = FALSE
    /\ callOf = "none"
    /\ callArg = <<>>
    /\ callRet = <<>>
    /\ callPc = "idle"
    /\ seqPc = "idle"
    /\ currentPageIndex = 0
    /\ seqOutcome = [p \in PageIds |-> "none"]
    /\ seqFile = <<>>
    /\ liveContexts = {}
    /\ cancelCalls = <<>>
    /\ chromeErr = FALSE


\* lines 624-628: one iteration of the launch loop: waitGroup.Add(1); go func.
Launch ==
    /\ orchPc = "loop"
    /\ pageIndex < totalPages
    /\ waitGroup' = waitGroup + 1
    /\ taskPc' = [taskPc EXCEPT ![pageIndex] = "start"]
    /\ pageIndex' = pageIndex + 1
    /\ UNCHANGED <<totalSDSDocuments, documentsPerPage, totalPages,
                   concurrentRequestsLimit, fileWriteMutex,
                   concurrencySemaphore, orchPc, offset, taskResult,
                   fetchCount, slotsAcquired, slotsReleased, outputFile,
                   initialFile, lockOrder>>
    /\ UNCHANGED <<downloadVars, callVars, seqVars>>

\* line 624: the loop condition fails; the orchestrator reaches line 657.
LoopExit ==
    /\ orchPc = "loop"
    /\ ~(pageIndex < totalPages)
    /\ orchPc' = "wait"
    /\ UNCHANGED <<totalSDSDocuments, documentsPerPage, totalPages,
                   concurrentRequestsLimit, waitGroup, fileWriteMutex,
                   concurrencySemaphore, pageIndex, taskPc, offset,
                   taskResult, fetchCount, slotsAcquired, slotsReleased,
                   outputFile, initialFile, lockOrder>>
    /\ UNCHANGED <<downloadVars, callVars, seqVars>>

\* line 657: waitGroup.Wait() returns when the counter is zero.
WaitCanReturnAlways == TRUE
WaitCanReturn == waitGroup = 0

\* lines 657-659: Wait returns, the completion message is logged.
WaitReturn ==
    /\ orchPc = "wait"
    /\ WaitCanReturn
    /\ orchPc' = "done"
    /\ UNCHANGED <<totalSDSDocuments, documentsPerPage, totalPages,
                   concurrentRequestsLimit, waitGroup, fileWriteMutex,
                   concurrencySemaphore, pageIndex, taskPc, offset,
                   taskResult, fetchCount, slotsAcquired, slotsReleased,
                   outputFile, initialFile, lockOrder>>
    /\ UNCHANGED <<downloadVars, callVars, seqVars>>

\* line 636: a send on the buffered channel blocks while it is full.
CanSendAlways == TRUE
CanSend == concurrencySemaphore < concurrentRequestsLimit

\* lines 632-636: the goroutine computes its offset and page URL (local to
\* it), then sends on the channel: concurrencySemaphore <- struct{}{}
Acquire(p) ==
    /\ taskPc[p] = "start"
    /\ CanSend
    /\ offset' = [offset EXCEPT ![p] = OffsetOf(p, documentsPerPage)]
    /\ concurrencySemaphore' = concurrencySemaphore + 1
    /\ slotsAcquired' = [slotsAcquired EXCEPT ![p] = @ + 1]
    /\ taskPc' = [taskPc EXCEPT ![p] = "fetch"]
    /\ UNCHANGED <<totalSDSDocuments, documentsPerPage, totalPages,
                   concurrentRequestsLimit, waitGroup, fileWriteMutex,
                   pageIndex, orchPc, taskResult, fetchCount,
                   slotsReleased, outputFile, initialFile, lockOrder>>
    /\ UNCHANGED <<downloadVars, callVars, seqVars>>

\* lines 640-645: fetchPageHTML returns; on an error the goroutine logs and
\* returns (its deferred calls run next), otherwise it goes on to the lock.
Fetch(p) ==
    /\ taskPc[p] = "fetch"
    /\ \E resp \in Responses(offset[p]) :
         LET r == fetchPageHTML(resp) IN
         /\ fetchCount' = [fetchCount EXCEPT ![p] = @ + 1]
         /\ IF r.err
              THEN /\ taskResult' = [taskResult EXCEPT ![p] = "fetcherr"]
                   /\ taskPc' = [taskPc EXCEPT ![p] = "release"]
              ELSE /\ taskResult' = [taskResult EXCEPT ![p] = "fetched"]
                   /\ taskPc' = [taskPc EXCEPT ![p] = "lock"]
    /\ UNCHANGED <<totalSDSDocuments, documentsPerPage, totalPages,
                   concurrentRequestsLimit, waitGroup, fileWriteMutex,
                   concurrencySemaphore, pageIndex, orchPc, offset,
                   slotsAcquired, slotsReleased, outputFile, initialFile,
                   lockOrder>>
    /\ UNCHANGED <<downloadVars, callVars, seqVars>>

\* line 647: Lock blocks while another goroutine holds the mutex.
CanLockAlways == TRUE
CanLock == ~fileWriteMutex

\* line 647: fileWriteMutex.Lock()
Lock(p) ==
    /\ taskPc[p] = "lock"
    /\ CanLock
    /\ fileWriteMutex' = TRUE
    /\ lockOrder' = Append(lockOrder, p)
    /\ taskPc' = [taskPc EXCEPT ![p] = "open"]
    /\ UNCHANGED <<totalSDSDocuments, documentsPerPage, totalPages,
                   concurrentRequestsLimit, waitGroup, concurrencySemaphore,
                   pageIndex, orchPc, offset, taskResult, fetchCount,
                   slotsAcquired, slotsReleased, outputFile, initialFile>>
    /\ UNCHANGED <<downloadVars, callVars, seqVars>>

\* lines 791-796: os.OpenFile(O_APPEND|O_CREATE|O_WRONLY); on an error
\* appendByteToFile logs and returns without writing.
OpenFile(p) ==
    /\ taskPc[p] = "open"
    /\ \E ok \in BOOLEAN :
         IF ok
           THEN /\ taskPc' = [taskPc EXCEPT ![p] = "write"]
                /\ UNCHANGED taskResult
           ELSE /\ taskPc' = [taskPc EXCEPT ![p] = "unlock"]
                /\ taskResult' = [taskResult EXCEPT ![p] = "openerr"]
    /\ UNCHANGED <<totalSDSDocuments, documentsPerPage, totalPages,
                   concurrentRequestsLimit, waitGroup, fileWriteMutex,
                   concurrencySemaphore, pageIndex, orchPc, offset,
                   fetchCount, slotsAcquired, slotsReleased, outputFile,
                   initialFile, lockOrder>>
    /\ UNCHANGED <<downloadVars, callVars, seqVars>>

\* O_APPEND: the bytes written land at the end of the file.
AppendedOver(file, data) == data
AppendedAtStart(file, data) == data \o SubSeq(file, Len(data) + 1, Len(file))
Appended(file, data) == file \o data

\* lines 800-804: file.Write(data) writes all of data, or fails having
\* written only a part of it.
WriteFile(p) ==
    /\ taskPc[p] = "write"
    /\ \E n \in 0 .. Len(PageBody(offset[p])) :
         /\ outputFile' = Appended(outputFile, Prefix(PageBody(offset[p]), n))
         /\ taskResult' = [taskResult EXCEPT
                             ![p] = IF n = Len(PageBody(offset[p]))
                                      THEN "ok" ELSE "writeerr"]
    /\ taskPc' = [taskPc EXCEPT ![p] = "close"]
    /\ UNCHANGED <<totalSDSDocuments, documentsPerPage, totalPages,
                   concurrentRequestsLimit, waitGroup, fileWriteMutex,
                   concurrencySemaphore, pageIndex, orchPc, offset,
                   fetchCount, slotsAcquired, slotsReleased, initialFile,
                   lockOrder>>
    /\ UNCHANGED <<downloadVars, callVars, seqVars>>

\* line 798: the deferred file.Close() as appendByteToFile returns.
CloseFile(p) ==
    /\ taskPc[p] = "close"
    /\ taskPc' = [taskPc EXCEPT ![p] = "unlock"]
    /\ UNCHANGED <<totalSDSDocuments, documentsPerPage, totalPages,
                   concurrentRequestsLimit, waitGroup, fileWriteMutex,
                   concurrencySemaphore, pageIndex, orchPc, offset,
                   taskResult, fetchCount, slotsAcquired, slotsReleased,
                   outputFile, initialFile, lockOrder>>
    /\ UNCHANGED <<downloadVars, callVars, seqVars>>

\* line 649: the deferred fileWriteMutex.Unlock(), first of the deferred
\* calls to run.
Unlock(p) ==
    /\ taskPc[p] = "unlock"
    /\ fileWriteMutex' = FALSE
    /\ taskPc' = [taskPc EXCEPT ![p] = "release"]
    /\ UNCHANGED <<totalSDSDocuments, documentsPerPage, totalPages,
                   concurrentRequestsLimit, waitGroup, concurrencySemaphore,
                   pageIndex, orchPc, offset, taskResult, fetchCount,
                   slotsAcquired, slotsReleased, outputFile, initialFile,
                   lockOrder>>
    /\ UNCHANGED <<downloadVars, callVars, seqVars>>

\* line 638: the deferred receive takes one element out of the channel.
AfterReceiveKeep(n) == n
AfterReceive(n) == n - 1

\* line 638: defer func() { <-concurrencySemaphore }()
Release(p) ==
    /\ taskPc[p] = "release"
    /\ concurrencySemaphore > 0
    /\ concurrencySemaphore' = AfterReceive(concurrencySemaphore)
    /\ slotsReleased' = [slotsReleased EXCEPT ![p] = @ + 1]
    /\ taskPc' = [taskPc EXCEPT ![p] = "wgdone"]
    /\ UNCHANGED <<totalSDSDocuments, documentsPerPage, totalPages,
                   concurrentRequestsLimit, waitGroup, fileWriteMutex,
                   pageIndex, orchPc, offset, taskResult, fetchCount,
                   slotsAcquired, outputFile, initialFile, lockOrder>>
    /\ UNCHANGED <<downloadVars, callVars, seqVars>>

\* line 630: the deferred waitGroup.Done(), last of the deferred calls.
WgDone(p) ==
    /\ taskPc[p] = "wgdone"
    /\ waitGroup' = waitGroup - 1
    /\ taskPc' = [taskPc EXCEPT ![p] = "finished"]
    /\ UNCHANGED <<totalSDSDocuments, documentsPerPage, totalPages,
                   concurrentRequestsLimit, fileWriteMutex,
                   concurrencySemaphore, pageIndex, orchPc, offset,
                   taskResult, fetchCount, slotsAcquired, slotsReleased,
                   outputFile, initialFile, lockOrder>>
    /\ UNCHANGED <<downloadVars, callVars, seqVars>>

NextScrape ==
    \/ Launch
    \/ LoopExit
    \/ WaitReturn
    \/ \E p \in PageIds : Acquire(p)
    \/ \E p \in PageIds : Fetch(p)
    \/ \E p \in PageIds : Lock(p)
    \/ \E p \in PageIds : OpenFile(p)
    \/ \E p \in PageIds : WriteFile(p)
    \/ \E p \in PageIds : CloseFile(p)
    \/ \E p \in PageIds : Unlock(p)
    \/ \E p \in PageIds : Release(p)
    \/ \E p \in PageIds : WgDone(p)


----------------------------------------------------------------------------
(* func main: the download phase of build 2 (lines 549-573, the sequential *)
(* program) and of build 3 (lines 885-911, the concurrent program).  The   *)
(* two differ in readAFileAsString (log.Fatalln in build 2, log.Println in *)
(* build 3), in createDirectory (log.Fatalln in build 2, log.Println in    *)
(* build 3) and in the ledger append of line 909, which only build 3       *)
(* performs.  Build 1 (lines 247-271) runs the loop of build 2 after its   *)
(* own scrape, with os.MkdirAll and an error return in downloadPDF.        *)

Builds == {2, 3}

\* The hrefs of the anchors in the model's aggregated files: two that differ
\* only in letter case, and a third.
UrlA == <<"h", "t", "t", "p", "s", ":", "/", "/", "x", "/", "a", ".", "p", "d", "f">>
UrlAUpper == <<"h", "t", "t", "p", "s", ":", "/", "/", "x", "/", "A", ".", "P", "D", "F">>
UrlB == <<"h", "t", "t", "p", "s", ":", "/", "/", "x", "/", "b", ".", "p", "d", "f">>

\* An anchor start tag as html.Tokenizer yields it.
Anchor(class, href) ==
    [type |-> "StartTag", data |-> "a",
     attr |-> <<[key |-> "class", val |-> class], [key |-> "href", val |-> href]>>]

\* The tokens of the model's aggregated files: download buttons for the
\* three hrefs.
HtmlTokens ==
    {Anchor(MarkerClass, UrlA), Anchor(MarkerClass, UrlAUpper),
     Anchor(MarkerClass, UrlB)}

\* The aggregated files: up to MaxAnchors tokens.
HtmlFiles == UNION {[1 .. n -> HtmlTokens] : n \in 0 .. MaxAnchors}

\* What can ail the ledger file during one execution of main: nothing, or
\* it cannot be read (it can still be opened for appending), or os.OpenFile
\* fails (line 793), or file.Write fails (line 801).
\* Only build 3 calls appendByteToFile from main.
LedgerFaults(b) ==
    IF b = 3 THEN {"none", "unreadable", "open", "write"} ELSE {"none"}

InitDownload ==
    /\ build \in Builds
    /\ run = 1
    /\ mainPc = "start"
    /\ htmlFile \in HtmlFiles
    /\ htmlContent = <<>>
    /\ downloadLinks = <<>>
    /\ linkIdx = 1
    /\ pdfDir = FALSE
    /\ pdfFiles = <<>>
    /\ ledgerFile = <<>>
    /\ ledgerFault \in LedgerFaults(build)
    /\ ledgerAtStart = ledgerFile
    /\ appendedThisRun = <<>>
    /\ savesThisRun = <<>>
    /\ fetchesThisRun = 0
    /\ presentAtStart = FALSE
    /\ succeededURLs = {}
    /\ lastSave = NoSave
    /\ readErr = FALSE
    /\ callOf = "none"
    /\ callArg = <<>>
    /\ callRet = <<>>
    /\ callPc = "idle"
    /\ seqPc = "idle"
    /\ currentPageIndex = 0
    /\ seqOutcome = [p \in PageIds |-> "none"]
    /\ seqFile = <<>>
    /\ liveContexts = {}
    /\ cancelCalls = <<>>
    /\ chromeErr = FALSE
    \* scrapeContentAndSaveToFile is not running: the call is commented out
    \* in func main (lines 553 and 891)
    /\ totalSDSDocuments = 1
    /\ documentsPerPage = 1
    /\ totalPages = TotalPagesOf(totalSDSDocuments, documentsPerPage)
    /\ concurrentRequestsLimit = 1
    /\ waitGroup = 0
    /\ fileWriteMutex = FALSE
    /\ concurrencySemaphore = 0
    /\ pageIndex = 0
    /\ orchPc = "idle"
    /\ taskPc = [p \in PageIds |-> "idle"]
    /\ offset = [p \in PageIds |-> -1]
    /\ taskResult = [p \in PageIds |-> "none"]
    /\ fetchCount = [p \in PageIds |-> 0]
    /\ slotsAcquired = [p \in PageIds |-> 0]
    /\ slotsReleased = [p \in PageIds |-> 0]
    /\ initialFile = <<>>
    /\ outputFile = initialFile
    /\ lockOrder = <<>>

\* lines 853-860 (build 3), 517-524 (build 2): readAFileAsString.  On a
\* failed os.ReadFile build 2 exits through log.Fatalln; build 3 logs and
\* returns string(nil), the empty string.
readAFileAsString(b, ok, file) ==
    IF ok THEN [exit |-> FALSE, content |-> file]
    ELSE IF b = 2 THEN [exit |-> TRUE, content |-> <<>>]
    ELSE [exit |-> FALSE, content |-> <<>>]

\* line 896 (558): the link normalisation main applies between
\* extraction and deduplication: none.
NormalizeLink(link) == link

\* lines 894-903 (556-565): main reads the aggregated file,
\* extracts the links and removes the duplicates.
ReadAndExtract ==
    /\ mainPc = "start"
    /\ \E ok \in BOOLEAN :
         LET r     == readAFileAsString(build, ok, htmlFile)
             found == extractDownloadLinks(r.content)
             links == removeDuplicatesFromSlice(
                          [i \in 1 .. Len(found) |-> NormalizeLink(found[i])])
         IN  IF r.exit
               THEN /\ mainPc' = "fatalRead"
                    /\ readErr' = ~ok
                    /\ UNCHANGED <<htmlContent, downloadLinks, presentAtStart>>
               ELSE /\ mainPc' = "loop"
                    /\ readErr' = ~ok
                    /\ htmlContent' = r.content
                    /\ downloadLinks' = links
                    /\ presentAtStart' =
                          \A i \in 1 .. Len(links) :
                              fileExists(PathJoin(getFileNamesFromURLs(links[i])),
                                         pdfDir, pdfFiles)
    /\ linkIdx' = 1
    /\ UNCHANGED <<build, run, htmlFile, pdfDir, pdfFiles, ledgerFile,
                   ledgerFault, ledgerAtStart, appendedThisRun, savesThisRun,
                   fetchesThisRun, succeededURLs, lastSave>>
    /\ UNCHANGED <<scrapeVars, callVars, seqVars>>

\* createDirectory when the folder is missing: os.Mkdir makes it, or fails and
\*   build 2 (lines 417-422): log.Fatalln ends the process;
\*   build 3 (lines 743-748): the error is logged, downloadPDF goes on.
MkdirOutcomes(b) ==
    {[dir |-> TRUE, end |-> "go on"],
     [dir |-> FALSE, end |-> IF b = 2 THEN "fatal" ELSE "go on"]}

\* lines 758-766: http.Get failed (st = <<"get">>) or the status is not 200
\* (st = <<"get", "status">>): downloadPDF returns the error, the folder
\* state being as it found it.
failedDownloadAfterMkdir(dir, files, st) ==
    [result |-> "err", fetched |-> TRUE, dir |-> TRUE, files |-> files,
     steps |-> st]
failedDownload(dir, files, st) ==
    [result |-> "err", fetched |-> TRUE, dir |-> dir, files |-> files,
     steps |-> st]

\* lines 751-785 (425-459): downloadPDF(pdfURL, "PDFs") from the
\* folder state (dir, files): the set of its possible outcomes, each with
\* the result ("ok" for nil, "err" for an error, "fatal" for a process
\* exit), whether http.Get was called, the folder state left behind and the
\* steps taken.
downloadPDF(pdfURL, dir, files, b) ==
    LET fileName == getFileNamesFromURLs(pdfURL)                      \* 752
        fullPath == PathJoin(fileName)                                \* 753
        Out(res, get, d, fs, st) ==
            [result |-> res, fetched |-> get, dir |-> d, files |-> fs,
             steps |-> st]
        Stored(complete) ==
            (fullPath.name :> [from |-> pdfURL, complete |-> complete]) @@ files
        \* lines 773-784: os.Create, io.Copy
        CreateAndCopy(d, st) ==
            {Out("err", TRUE, d, files, st \o <<"create">>)}          \* 774
              \cup (IF d /\ fullPath.kind = "file"
                      THEN {Out("err", TRUE, d, Stored(FALSE),
                                st \o <<"create", "copy">>),          \* 780
                            Out("ok", TRUE, d, Stored(TRUE),
                                st \o <<"create", "copy">>)}          \* 784
                      ELSE {})
        \* lines 769-771
        EnsureFolder(st) ==
            IF directoryExists(dir) THEN CreateAndCopy(dir, st)
            ELSE UNION {
                   IF m.end = "go on" THEN CreateAndCopy(m.dir, st \o <<"mkdir">>)
                   ELSE {Out(m.end, TRUE, m.dir, files, st \o <<"mkdir">>)}
                   : m \in MkdirOutcomes(b)}
    IN  IF fileExists(fullPath, dir, files)                           \* 754
          THEN {Out("ok", FALSE, dir, files, <<"exists">>)}           \* 756
          ELSE {failedDownload(dir, files, <<"get">>),                \* 760
                failedDownload(dir, files, <<"get", "status">>)}      \* 765
                 \cup EnsureFolder(<<"get", "status">>)

\* lines 904-908 (566-570): one downloadPDF call of the loop; an
\* error is logged and the loop goes on.
DownloadStep ==
    /\ mainPc = "loop"
    /\ linkIdx <= Len(downloadLinks)
    /\ LET link == downloadLinks[linkIdx] IN
       \E o \in downloadPDF(link, pdfDir, pdfFiles, build) :
         /\ pdfDir' = o.dir
         /\ pdfFiles' = o.files
         /\ lastSave' = [url |-> link, result |-> o.result,
                         fetched |-> o.fetched, steps |-> o.steps,
                         again |-> link \in succeededURLs]
         /\ savesThisRun' = Append(savesThisRun, link)
         /\ fetchesThisRun' = fetchesThisRun + (IF o.fetched THEN 1 ELSE 0)
         /\ succeededURLs' = IF o.result = "ok"
                               THEN succeededURLs \cup {link}
                               ELSE succeededURLs
         /\ IF o.result = "fatal"
              THEN mainPc' = "fatalMkdir" /\ UNCHANGED linkIdx
              ELSE IF build = 3
                THEN mainPc' = "append" /\ UNCHANGED linkIdx
                ELSE mainPc' = "loop" /\ linkIdx' = linkIdx + 1
    /\ UNCHANGED <<build, run, htmlFile, htmlContent, downloadLinks,
                   ledgerFile, ledgerFault, ledgerAtStart, appendedThisRun,
                   presentAtStart, readErr>>
    /\ UNCHANGED <<scrapeVars, callVars, seqVars>>

\* line 909: whether main appends the link to the ledger after the
\* downloadPDF call: always.
ShouldAppendIfSaved(link, ledgerText) == lastSave.result = "ok"
ShouldAppend(link, ledgerText) == TRUE

\* The bytes a failing file.Write of data has written, as far as the model
\* goes: all but the last one.
PartialWrite(data) == Prefix(data, Len(data) - 1)

\* lines 789-806: what appendByteToFile(filename, data) leaves in the file.
appendByteToFile(file, data, fault) ==
    IF fault = "open" THEN file                                  \* 793-796
    ELSE IF fault = "write" THEN Appended(file, PartialWrite(data))  \* 801
    ELSE Appended(file, data)                                    \* 800, 805

\* line 909: appendByteToFile(outputURLsFile, []byte(link+"\n")), build 3.
AppendLink ==
    /\ mainPc = "append"
    /\ LET link == downloadLinks[linkIdx] IN
       IF ShouldAppend(link, ledgerAtStart)
         THEN /\ ledgerFile' =
                    appendByteToFile(ledgerFile, link \o <<"\n">>, ledgerFault)
              /\ appendedThisRun' =
                    IF ledgerFault \in {"none", "unreadable"}
                      THEN Append(appendedThisRun, link)
                      ELSE appendedThisRun
         ELSE UNCHANGED <<ledgerFile, appendedThisRun>>
    /\ linkIdx' = linkIdx + 1
    /\ mainPc' = "loop"
    /\ UNCHANGED <<build, run, htmlFile, htmlContent, downloadLinks, pdfDir,
                   pdfFiles, ledgerFault, ledgerAtStart, savesThisRun,
                   fetchesThisRun, presentAtStart, succeededURLs, lastSave,
                   readErr>>
    /\ UNCHANGED <<scrapeVars, callVars, seqVars>>

\* line 904: the range loop is over; main returns.
LoopEnd ==
    /\ mainPc = "loop"
    /\ linkIdx > Len(downloadLinks)
    /\ mainPc' = "done"
    /\ UNCHANGED <<build, run, htmlFile, htmlContent, downloadLinks, linkIdx,
                   pdfDir, pdfFiles, ledgerFile, ledgerFault, ledgerAtStart,
                   appendedThisRun, savesThisRun, fetchesThisRun,
                   presentAtStart, succeededURLs, lastSave, readErr>>
    /\ UNCHANGED <<scrapeVars, callVars, seqVars>>

\* The program is started again over the files the previous execution left.
NewRun ==
    /\ mainPc \in {"done", "fatalRead", "fatalMkdir"}
    /\ run < MaxRuns
    /\ run' = run + 1
    /\ mainPc' = "start"
    /\ htmlContent' = <<>>
    /\ downloadLinks' = <<>>
    /\ linkIdx' = 1
    /\ ledgerFault' \in LedgerFaults(build)
    /\ ledgerAtStart' = ledgerFile
    /\ appendedThisRun' = <<>>
    /\ savesThisRun' = <<>>
    /\ fetchesThisRun' = 0
    /\ presentAtStart' = FALSE
    /\ lastSave' = NoSave
    /\ readErr' = FALSE
    /\ UNCHANGED <<build, htmlFile, pdfDir, pdfFiles, ledgerFile,
                   succeededURLs>>
    /\ UNCHANGED <<scrapeVars, callVars, seqVars>>

NextDownload ==
    \/ ReadAndExtract
    \/ DownloadStep
    \/ AppendLink
    \/ LoopEnd
    \/ NewRun

\* The pagination run alone, and the download phase alone.
Spec == InitScrape /\ [][NextScrape]_vars
SpecDownload == InitDownload /\ [][NextDownload]_vars

\* The pagination run when the Go scheduler goes on running a goroutine as
\* long as one can take a step and every fetchPageHTML call returns: the
\* http.Client of lines 684-687 has a Timeout, so client.Do (line 700) does
\* not hang.  Every statement of the run is executed once, so a run that
\* does not stop while a step is possible gives every goroutine its steps.
FairScrape == WF_vars(NextScrape)
SpecFair == InitScrape /\ [][NextScrape]_vars /\ FairScrape

\* One run of the program: either of its two phases, the other one being
\* commented out (line 891) or run beforehand.
InitProgram == InitScrape \/ InitDownload
NextProgram == NextScrape \/ NextDownload
SpecProgram == InitProgram /\ [][NextProgram]_vars

----------------------------------------------------------------------------
(* scrapeContentAndSaveToFile, sequential builds (lines 78-104 with the    *)
(* headless browser, lines 305-332 over HTTP), and scrapePageHTMLWithChrome *)
(* (lines 22-62).  One page is handled at a time: the loop variable        *)
(* currentPageIndex is the only position there is.                         *)

SeqBuilds == {1, 2}

\* lines 35, 37, 39: the three contexts scrapePageHTMLWithChrome creates,
\* each derived from the one before it.
ChromeContexts == {"allocator", "timeout", "browser"}

\* Cancelling a context cancels the contexts derived from it.
DerivedFrom(c) ==
    IF c = "allocator" THEN {"allocator", "timeout", "browser"}
    ELSE IF c = "timeout" THEN {"timeout", "browser"}
    ELSE {"browser"}

\* lines 41-45: the deferred closure calls cancelBrowser, cancelTimeout and
\* cancelAllocator, in this order.
DeferredCancelsNoAllocator == <<"browser", "timeout">>
DeferredCancels == <<"browser", "timeout", "allocator">>

InitSequential ==
    /\ totalSDSDocuments \in 1 .. MaxDocs
    /\ documentsPerPage \in 1 .. MaxPerPage
    /\ totalPages = TotalPagesOf(totalSDSDocuments, documentsPerPage)
    \* the concurrent orchestrator is not running
    /\ concurrentRequestsLimit = 1
    /\ waitGroup = 0
    /\ fileWriteMutex = FALSE
    /\ concurrencySemaphore = 0
    /\ pageIndex = 0
    /\ orchPc = "idle"
    /\ taskPc = [p \in PageIds |-> "idle"]
    /\ offset = [p \in PageIds |-> -1]
    /\ taskResult = [p \in PageIds |-> "none"]
    /\ fetchCount = [p \in PageIds |-> 0]
    /\ slotsAcquired = [p \in PageIds |-> 0]
    /\ slotsReleased = [p \in PageIds |-> 0]
    /\ initialFile \in {<<>>, <<7>>}
    /\ outputFile = initialFile
    /\ lockOrder = <<>>
    \* func main has called scrapeContentAndSaveToFile (lines 256, 558)
    /\ build \in SeqBuilds
    /\ run = 1
    /\ mainPc = "idle"
    /\ htmlFile = <<>>
    /\ htmlContent = <<>>
    /\ downloadLinks = <<>>
    /\ linkIdx = 1
    /\ pdfDir = FALSE
    /\ pdfFiles = <<>>
    /\ ledgerFile = <<>>
    /\ ledgerFault = "none"
    /\ ledgerAtStart = <<>>
    /\ appendedThisRun = <<>>
    /\ savesThisRun = <<>>
    /\ fetchesThisRun = 0
    /\ presentAtStart = FALSE
    /\ succeededURLs = {}
    /\ lastSave = NoSave
    /\ readErr = FALSE
    /\ callOf = "none"
    /\ callArg = <<>>
    /\ callRet = <<>>
    /\ callPc = "idle"
    /\ seqPc = "loop"
    /\ currentPageIndex = 0
    /\ seqOutcome = [p \in PageIds |-> "none"]
    /\ seqFile = initialFile
    /\ liveContexts = {}
    /\ cancelCalls = <<>>
    /\ chromeErr = FALSE

\* lines 35-45: scrapePageHTMLWithChrome is entered (line 92); it creates the
\* allocator, timeout and browser contexts and registers the deferred closure.
ChromeStart ==
    /\ build = 1
    /\ seqPc = "loop"
    /\ currentPageIndex < totalPages
    /\ liveContexts' = ChromeContexts
    /\ cancelCalls' = <<>>
    /\ chromeErr' = FALSE
    /\ seqPc' = "chrome"
    /\ UNCHANGED <<currentPageIndex, seqOutcome, seqFile>>
    /\ UNCHANGED <<scrapeVars, downloadVars, callVars>>

\* lines 49-61: chromedp.Run returns nil or an error; either return statement
\* (line 59, line 61) hands over to the deferred closure.
ChromeRun ==
    /\ seqPc = "chrome"
    /\ chromeErr' \in BOOLEAN
    /\ seqPc' = "deferred"
    /\ UNCHANGED <<currentPageIndex, seqOutcome, seqFile, liveContexts,
                   cancelCalls>>
    /\ UNCHANGED <<scrapeVars, downloadVars, callVars>>

\* lines 42-44: the next cancel call of the deferred closure.
ChromeCancel ==
    /\ seqPc = "deferred"
    /\ Len(cancelCalls) < Len(DeferredCancels)
    /\ LET c == DeferredCancels[Len(cancelCalls) + 1] IN
       /\ cancelCalls' = Append(cancelCalls, c)
       /\ liveContexts' = liveContexts \ DerivedFrom(c)
    /\ UNCHANGED <<seqPc, currentPageIndex, seqOutcome, seqFile, chromeErr>>
    /\ UNCHANGED <<scrapeVars, downloadVars, callVars>>

\* line 45: the deferred closure is over and the function returns to line 92.
ChromeReturn ==
    /\ seqPc = "deferred"
    /\ Len(cancelCalls) = Len(DeferredCancels)
    /\ seqPc' = "returned"
    /\ UNCHANGED <<currentPageIndex, seqOutcome, seqFile, liveContexts,
                   cancelCalls, chromeErr>>
    /\ UNCHANGED <<scrapeVars, downloadVars, callVars>>

\* lines 94-97: on an error the loop logs and goes to the next page.
ChromeCheckErr ==
    /\ seqPc = "returned"
    /\ IF chromeErr
         THEN /\ seqOutcome' = [seqOutcome EXCEPT
                                  ![currentPageIndex] = "fetcherr"]
              /\ currentPageIndex' = currentPageIndex + 1
              /\ seqPc' = "loop"
         ELSE /\ seqOutcome' = [seqOutcome EXCEPT
                                  ![currentPageIndex] = "fetched"]
              /\ currentPageIndex' = currentPageIndex
              /\ seqPc' = "append"
    /\ UNCHANGED <<seqFile, liveContexts, cancelCalls, chromeErr>>
    /\ UNCHANGED <<scrapeVars, downloadVars, callVars>>

\* lines 314-325: offset, page URL and fetchPageHTML; on an error the loop
\* logs and goes to the next page.
SeqFetch ==
    /\ build = 2
    /\ seqPc = "loop"
    /\ currentPageIndex < totalPages
    /\ \E resp \in Responses(OffsetOf(currentPageIndex, documentsPerPage)) :
         IF fetchPageHTML(resp).err
           THEN /\ seqOutcome' = [seqOutcome EXCEPT
                                    ![currentPageIndex] = "fetcherr"]
                /\ currentPageIndex' = currentPageIndex + 1
                /\ seqPc' = "loop"
           ELSE /\ seqOutcome' = [seqOutcome EXCEPT
                                    ![currentPageIndex] = "fetched"]
                /\ currentPageIndex' = currentPageIndex
                /\ seqPc' = "append"
    /\ UNCHANGED <<seqFile, liveContexts, cancelCalls, chromeErr>>
    /\ UNCHANGED <<scrapeVars, downloadVars, callVars>>

\* The outcomes of one appendByteToFile call (lines 165, 173; 467, 475).
AppendFaults == {"none", "open", "write"}

\* Outcome recorded for a page whose append met the given fault.
AppendOutcome(fault) ==
    IF fault = "open" THEN "openerr"
    ELSE IF fault = "write" THEN "writeerr" ELSE "ok"

\* lines 99, 327: appendByteToFile(outputHTMLFile, []byte(pageHTMLContent)),
\* then the loop's increment.
SeqAppend ==
    /\ seqPc = "append"
    /\ \E fault \in AppendFaults :
         /\ seqFile' =
              appendByteToFile(
                  seqFile,
                  PageBody(OffsetOf(currentPageIndex, documentsPerPage)),
                  fault)
         /\ seqOutcome' = [seqOutcome EXCEPT
                             ![currentPageIndex] = AppendOutcome(fault)]
    /\ currentPageIndex' = currentPageIndex + 1
    /\ seqPc' = "loop"
    /\ UNCHANGED <<liveContexts, cancelCalls, chromeErr>>
    /\ UNCHANGED <<scrapeVars, downloadVars, callVars>>

\* lines 85, 312 and 103, 331: the loop condition fails; the function logs
\* and returns.
SeqLoopExit ==
    /\ seqPc = "loop"
    /\ currentPageIndex >= totalPages
    /\ seqPc' = "done"
    /\ UNCHANGED <<currentPageIndex, seqOutcome, seqFile, liveContexts,
                   cancelCalls, chromeErr>>
    /\ UNCHANGED <<scrapeVars, downloadVars, callVars>>

NextChrome ==
    \/ ChromeStart
    \/ ChromeRun
    \/ ChromeCancel
    \/ ChromeReturn
    \/ ChromeCheckErr

NextSequential ==
    \/ SeqFetch
    \/ SeqAppend
    \/ SeqLoopExit

SpecSequential ==
    InitSequential /\ [][NextChrome \/ NextSequential]_vars

\* The sequential build's scrapeContentAndSaveToFile (lines 305-311) is run
\* once a run of the concurrent one is over, on the same page counts and on
\* a file that holds what the concurrent run found in its own.
SequentialAfterConcurrent ==
    /\ orchPc = "done"
    /\ seqPc = "idle"
    /\ build' = 2
    /\ seqPc' = "loop"
    /\ currentPageIndex' = 0
    /\ seqFile' = initialFile
    /\ UNCHANGED <<seqOutcome, liveContexts, cancelCalls, chromeErr>>
    /\ UNCHANGED <<run, mainPc, htmlFile, htmlContent, downloadLinks, linkIdx,
                   pdfDir, pdfFiles, ledgerFile, ledgerFault, ledgerAtStart,
                   appendedThisRun, savesThisRun, fetchesThisRun,
                   presentAtStart, succeededURLs, lastSave, readErr>>
    /\ UNCHANGED <<scrapeVars, callVars>>

\* A run of the concurrent orchestrator, then a run of the sequential one.
NextCompare == NextScrape \/ SequentialAfterConcurrent \/ NextSequential
SpecCompare == InitScrape /\ [][NextCompare]_vars

----------------------------------------------------------------------------
(* The pure functions, each called once on an argument of its own *)

\* Sequences of at most n elements of the set S.
SeqsUpTo(S, n) == UNION {[1 .. k -> S] : k \in 0 .. n}

\* Arguments of removeDuplicatesFromSlice: slices of three strings, two of
\* which differ only in letter case.
SliceStrings == {<<"a">>, <<"A">>, <<"b">>}
Slices == SeqsUpTo(SliceStrings, MaxSlice)

\* hrefs besides UrlA, UrlAUpper and UrlB: two relative ones, one that is
\* no PDF, one whose path is "/".
UrlRelative == <<"/", "d", "/", "a", ".", "p", "d", "f">>
UrlBare == <<"a", ".", "p", "d", "f">>
UrlHtml == <<"h", "t", "t", "p", "s", ":", "/", "/", "x", "/", "a", ".", "h", "t", "m", "l">>
UrlNoName == <<"h", "t", "t", "p", "s", ":", "/", "/", "x", "/", "?", "q", "=", ".", "p", "d", "f">>

\* A token of name data with the given attributes.
Tag(type, data, attr) == [type |-> type, data |-> data, attr |-> attr]
Attr(key, val) == [key |-> key, val |-> val]

\* Arguments of extractDownloadLinks: the tokens html.Tokenizer can yield
\* for the file's text.
CallTokens ==
    {Anchor(MarkerClass, UrlA),
     Anchor(MarkerClass, UrlAUpper),
     Anchor(MarkerClass, UrlRelative),
     Anchor(MarkerClass, UrlBare),
     Anchor(MarkerClass, UrlHtml),
     Anchor(MarkerClass, UrlNoName),
     Anchor(<<"n", "a", "v">>, UrlB),
     Anchor(<<"b", " ">> \o MarkerClass, UrlB),
     Tag("SelfClosingTag", "a", <<Attr("href", UrlB), Attr("class", MarkerClass)>>),
     Tag("StartTag", "a", <<Attr("class", MarkerClass), Attr("href", UrlHtml),
                            Attr("href", UrlB)>>),
     Tag("StartTag", "a", <<Attr("class", MarkerClass)>>),
     Tag("StartTag", "link", <<Attr("class", MarkerClass), Attr("href", UrlB)>>),
     Tag("EndTag", "a", <<>>),
     Tag("Text", "a.pdf", <<>>)}
TokenSeqs == SeqsUpTo(CallTokens, MaxTokens)

\* Arguments of getFileNamesFromURLs: the example of the documentation, and
\* what follows the last slash drawn from an alphabet with letters of both
\* cases, a space, a parenthesis, characters of the class of line 876, a
\* control character and the characters that matter to url.Parse, either
\* on its own or after "https://x/d/".
UrlExample ==
    <<"h", "t", "t", "p", "s", ":", "/", "/", "x", ".", "c", "o", "m", "/",
      "d", "o", "c", "s", "/", "M", "y", " ", "F", "i", "l", "e", " ", "(",
      "v", "2", ")", ".", "p", "d", "f">>
UrlDir == <<"h", "t", "t", "p", "s", ":", "/", "/", "x", "/", "d", "/">>
NameChars == {"M", "9", " ", "(", "<", ":", "?", "#", "/", "%", "2", "0", "\t", "."}
CallURLs ==
    {UrlExample}
        \cup SeqsUpTo(NameChars, MaxNameLen)
        \cup {UrlDir \o n : n \in SeqsUpTo(NameChars, MaxNameLen)}

InitCalls ==
    /\ callPc = "called"
    /\ \/ callOf = "removeDuplicatesFromSlice" /\ callArg \in Slices
       \/ callOf = "extractDownloadLinks" /\ callArg \in TokenSeqs
       \/ callOf = "getFileNamesFromURLs" /\ callArg \in CallURLs
    /\ callRet = <<>>
    \* neither scrapeContentAndSaveToFile nor main is running
    /\ totalSDSDocuments = 1
    /\ documentsPerPage = 1
    /\ totalPages = TotalPagesOf(totalSDSDocuments, documentsPerPage)
    /\ concurrentRequestsLimit = 1
    /\ waitGroup = 0
    /\ fileWriteMutex = FALSE
    /\ concurrencySemaphore = 0
    /\ pageIndex = 0
    /\ orchPc = "idle"
    /\ taskPc = [p \in PageIds |-> "idle"]
    /\ offset = [p \in PageIds |-> -1]
    /\ taskResult = [p \in PageIds |-> "none"]
    /\ fetchCount = [p \in PageIds |-> 0]
    /\ slotsAcquired = [p \in PageIds |-> 0]
    /\ slotsReleased = [p \in PageIds |-> 0]
    /\ initialFile = <<>>
    /\ outputFile = initialFile
    /\ lockOrder = <<>>
    /\ build = 3
    /\ run = 1
    /\ mainPc = "idle"
    /\ htmlFile = <<>>
    /\ htmlContent = <<>>
    /\ downloadLinks = <<>>
    /\ linkIdx = 1
    /\ pdfDir = FALSE
    /\ pdfFiles = <<>>
    /\ ledgerFile = <<>>
    /\ ledgerFault = "none"
    /\ ledgerAtStart = <<>>
    /\ appendedThisRun = <<>>
    /\ savesThisRun = <<>>
    /\ fetchesThisRun = 0
    /\ presentAtStart = FALSE
    /\ succeededURLs = {}
    /\ lastSave = NoSave
    /\ readErr = FALSE
    /\ seqPc = "idle"
    /\ currentPageIndex = 0
    /\ seqOutcome = [p \in PageIds |-> "none"]
    /\ seqFile = <<>>
    /\ liveContexts = {}
    /\ cancelCalls = <<>>
    /\ chromeErr = FALSE

\* line 903: removeDuplicatesFromSlice(callArg)
CallRemoveDuplicates ==
    /\ callOf = "removeDuplicatesFromSlice"
    /\ callPc = "called"
    /\ callRet' = removeDuplicatesFromSlice(callArg)
    /\ callPc' = "returned"
    /\ UNCHANGED <<callOf, callArg, scrapeVars, downloadVars, seqVars>>

\* removeDuplicatesFromSlice applied to what it returned.
CallRemoveDuplicatesAgain ==
    /\ callOf = "removeDuplicatesFromSlice"
    /\ callPc = "returned"
    /\ callRet' = removeDuplicatesFromSlice(callRet)
    /\ callPc' = "again"
    /\ UNCHANGED <<callOf, callArg, scrapeVars, downloadVars, seqVars>>

\* line 896: downloadLinks, err := extractDownloadLinks(callArg); the one
\* return statement of the function (line 822) returns a nil error.
CallExtract ==
    /\ callOf = "extractDownloadLinks"
    /\ callPc = "called"
    /\ callRet' = [links |-> extractDownloadLinks(callArg), err |-> "nil"]
    /\ callPc' = "returned"
    /\ UNCHANGED <<callOf, callArg, scrapeVars, downloadVars, seqVars>>

\* line 752: getFileNamesFromURLs(callArg)
CallFileName ==
    /\ callOf = "getFileNamesFromURLs"
    /\ callPc = "called"
    /\ callRet' = getFileNamesFromURLs(callArg)
    /\ callPc' = "returned"
    /\ UNCHANGED <<callOf, callArg, scrapeVars, downloadVars, seqVars>>

NextCalls ==
    \/ CallRemoveDuplicates
    \/ CallRemoveDuplicatesAgain
    \/ CallExtract
    \/ CallFileName

SpecCalls == InitCalls /\ [][NextCalls]_vars

----------------------------------------------------------------------------
(* Properties of the pagination orchestrator *)

\* The page indices of this run.
Pages == 0 .. (totalPages - 1)

\* Goroutines that have sent on the semaphore and not yet received from it.
HoldingSlot == {p \in PageIds : slotsAcquired[p] > slotsReleased[p]}

\* Goroutines inside fetchPageHTML.
InFetch == {p \in PageIds : taskPc[p] = "fetch"}

\* Goroutines inside appendByteToFile.
InAppend == {p \in PageIds : taskPc[p] \in {"open", "write", "close"}}

\* Goroutines holding an open descriptor of the output file.
FileOpen == {p \in PageIds : taskPc[p] \in {"write", "close"}}

\* Goroutines whose fetchPageHTML returned a body.
FetchSucceeded(p) == taskResult[p] \in {"fetched", "ok", "openerr", "writeerr"}

\* body occurs in file as a run of consecutive bytes.
Contains(file, body) ==
    \E i \in 0 .. (Len(file) - Len(body)) :
        SubSeq(file, i + 1, i + Len(body)) = body

\* C1: at every instant at most concurrentRequestsLimit goroutines hold a
\* semaphore slot (sent and not yet received), and so at most that many are
\* inside fetchPageHTML.
C1_ConcurrencyCap ==
    /\ Cardinality(HoldingSlot) <= concurrentRequestsLimit
    /\ Cardinality(InFetch) <= concurrentRequestsLimit
    /\ InFetch \subseteq HoldingSlot

\* The cap is reached while another goroutine waits for a slot.
C1_Witness ==
    /\ Cardinality(InFetch) = concurrentRequestsLimit
    /\ \E p \in PageIds : taskPc[p] = "start"

C4_AppendMutualExclusion ==
    /\ Cardinality(InAppend) <= 1
    /\ Cardinality(FileOpen) <= 1
    /\ InAppend # {} => fileWriteMutex

\* One goroutine has the file open while another waits at Lock.
C4_Witness ==
    \E p, q \in PageIds : taskPc[p] = "write" /\ taskPc[q] = "lock"

\* C5: a goroutine sends on the semaphore at most once and receives at most
\* once, a goroutine at its end has done both, whatever its path, the
\* channel holds one element per goroutine between the two, and the channel
\* is empty when the orchestrator completes.
C5_SlotReleasedOnEveryPath ==
    /\ \A p \in PageIds :
          /\ slotsReleased[p] <= slotsAcquired[p]
          /\ slotsAcquired[p] <= 1
          /\ taskPc[p] \in {"wgdone", "finished"} =>
                slotsAcquired[p] = 1 /\ slotsReleased[p] = 1
    /\ concurrencySemaphore = Cardinality(HoldingSlot)
    /\ orchPc = "done" => concurrencySemaphore = 0

\* With one slot, a goroutine whose fetch failed has released it, and the
\* goroutine that waited behind it was admitted and appended its page.
C5_Witness ==
    /\ orchPc = "done"
    /\ concurrentRequestsLimit = 1
    /\ \E p, q \in Pages : taskResult[p] = "fetcherr" /\ taskResult[q] = "ok"

\* C6: totalPages is the ceiling of totalSDSDocuments / documentsPerPage;
\* the loop launches the goroutines 0 .. totalPages-1 and no other; each
\* requests offset = index * documentsPerPage, once, and no two offsets agree.
C6_PagesAndOffsets ==
    /\ totalPages * documentsPerPage >= totalSDSDocuments
    /\ (totalPages - 1) * documentsPerPage < totalSDSDocuments
    /\ {p \in PageIds : taskPc[p] # "idle"} = 0 .. (pageIndex - 1)
    /\ pageIndex <= totalPages
    /\ orchPc \in {"wait", "done"} => pageIndex = totalPages
    /\ \A p \in PageIds :
          /\ fetchCount[p] <= 1
          /\ taskPc[p] \notin {"idle", "start"} =>
                offset[p] = p * documentsPerPage
          /\ fetchCount[p] = 1 => offset[p] = p * documentsPerPage
    /\ \A p, q \in PageIds :
          (p # q /\ fetchCount[p] = 1 /\ fetchCount[q] = 1) =>
              offset[p] # offset[q]

\* A complete run of two pages, both fetched.
C6_Witness ==
    /\ orchPc = "done"
    /\ totalPages = 2
    /\ \A p \in Pages : fetchCount[p] = 1

----------------------------------------------------------------------------
(* Properties of the download phase *)

\* The step is a downloadPDF call of the loop.
IsSave == Len(savesThisRun') = Len(savesThisRun) + 1

\* The link the loop is about to save.
CurrentLink == downloadLinks[linkIdx]

\* main has extracted and deduplicated the links of this execution.
Extracted == mainPc \in {"loop", "append", "done"}

\* C7: once downloadPDF(url, "PDFs") has returned nil, every later call for
\* that url, in this execution or a later one, returns nil without an
\* http.Get and leaves the folder and the stored files as they were; and an
\* execution that found the file of every link present has made no http.Get
\* when its loop is over.
C7_SaveIsIdempotent ==
    /\ [][(IsSave /\ CurrentLink \in succeededURLs)
             => /\ lastSave'.result = "ok"
                /\ ~lastSave'.fetched
                /\ fetchesThisRun' = fetchesThisRun
                /\ pdfFiles' = pdfFiles
                /\ pdfDir' = pdfDir]_vars
    /\ []((mainPc = "done" /\ presentAtStart) => fetchesThisRun = 0)

\* A second execution has gone through a link that an earlier execution
\* saved, all files being present at its start.
C7_Witness ==
    /\ run > 1
    /\ mainPc = "done"
    /\ presentAtStart
    /\ downloadLinks # <<>>
    /\ lastSave.again
    /\ lastSave.result = "ok"
    /\ ~lastSave.fetched

\* C8: no failure inside the save of one link, a failed directory creation
\* included, ends the process: the loop gives every deduplicated link its
\* downloadPDF call, in order.
C8_Original ==
    /\ mainPc # "fatalMkdir"
    /\ Extracted => savesThisRun = Prefix(downloadLinks, Len(savesThisRun))
    /\ mainPc = "done" => savesThisRun = downloadLinks

\* C9: a link is appended to the ledger only if the ledger text as it was at
\* the start of the execution does not contain the lower-cased link.
C9_Original ==
    \A i \in 1 .. Len(appendedThisRun) :
        ~ContainsStr(ledgerAtStart, ToLower(appendedThisRun[i]))

\* C10: the links main works on are lower-cased, and no two of them differ
\* only in letter case: such links get one downloadPDF call and one ledger
\* line between them.
C10_Original ==
    /\ \A i, j \in 1 .. Len(downloadLinks) :
           ToLower(downloadLinks[i]) = ToLower(downloadLinks[j]) => i = j
    /\ \A i, j \in 1 .. Len(savesThisRun) :
           ToLower(savesThisRun[i]) = ToLower(savesThisRun[j]) => i = j
    /\ \A i, j \in 1 .. Len(appendedThisRun) :
           ToLower(appendedThisRun[i]) = ToLower(appendedThisRun[j]) => i = j

\* C11: when the aggregated file or the ledger file cannot be read at the
\* start of an execution, the execution is aborted: it extracts no link,
\* makes no downloadPDF call and appends nothing to the ledger.
C11_Original ==
    (readErr \/ (mainPc # "start" /\ ledgerFault = "unreadable"))
        => /\ downloadLinks = <<>>
           /\ savesThisRun = <<>>
           /\ appendedThisRun = <<>>
           /\ ledgerFile = ledgerAtStart

----------------------------------------------------------------------------
(* Properties of the pure functions *)

\* The elements of the sequence s.
Range(s) == {s[i] : i \in 1 .. Len(s)}

\* The position of the first occurrence of x in s.
FirstIndex(s, x) ==
    CHOOSE i \in 1 .. Len(s) : s[i] = x /\ \A j \in 1 .. (i - 1) : s[j] # x

\* The call of the function fn has returned.
Returned(fn) == callOf = fn /\ callPc = "returned"

\* C12: removeDuplicatesFromSlice(xs) holds every distinct string of xs
\* exactly once, holds no string that xs lacks, and lists them in the order
\* of their first occurrences in xs; strings are equal when they are the
\* same character for character.
C12_DedupContract ==
    Returned("removeDuplicatesFromSlice") =>
        /\ \A x \in Range(callArg) :
               Cardinality({i \in 1 .. Len(callRet) : callRet[i] = x}) = 1
        /\ Range(callRet) \subseteq Range(callArg)
        /\ \A i, j \in 1 .. Len(callRet) :
               i < j => FirstIndex(callArg, callRet[i])
                            < FirstIndex(callArg, callRet[j])

\* The slice had a repeated string between two others, and two strings that
\* differ only in letter case.
C12_Witness ==
    /\ Returned("removeDuplicatesFromSlice")
    /\ Len(callArg) = 3
    /\ callArg[1] = callArg[3]
    /\ callArg[2] = ToLower(callArg[1])
    /\ callArg[2] # callArg[1]
    /\ Len(callRet) = 2

\* C13: removeDuplicatesFromSlice applied to its own result returns that
\* result, element for element.
C13_DedupIdempotent ==
    [][(callOf = "removeDuplicatesFromSlice" /\ callPc = "returned"
            /\ callPc' = "again") => callRet' = callRet]_vars

\* The second application was given a result of two strings that the first
\* application had reduced from three.
C13_Witness ==
    /\ callOf = "removeDuplicatesFromSlice"
    /\ callPc = "again"
    /\ Len(callArg) = 3
    /\ Len(callRet) = 2

\* The value of the href attribute of the token t: of the last one when
\* there are several, the empty string when there is none.
HrefOf(t) ==
    LET at == {i \in 1 .. Len(t.attr) : t.attr[i].key = "href"} IN
    IF at = {} THEN <<>>
    ELSE t.attr[CHOOSE i \in at : \A j \in at : j <= i].val

\* str ends in ".pdf", whatever the case of its letters.
EndsInPdf(str) ==
    /\ Len(str) >= 4
    /\ str[Len(str) - 3] = "."
    /\ str[Len(str) - 2] \in {"p", "P"}
    /\ str[Len(str) - 1] \in {"d", "D"}
    /\ str[Len(str)] \in {"f", "F"}

\* The token is the start tag or self-closing tag of an anchor that has a
\* class attribute containing the marker class and an href ending in ".pdf".
IsPdfButton(t) ==
    /\ t.type \in {"StartTag", "SelfClosingTag"}
    /\ t.data = "a"
    /\ \E i \in 1 .. Len(t.attr) :
           t.attr[i].key = "class" /\ ContainsStr(t.attr[i].val, MarkerClass)
    /\ EndsInPdf(HrefOf(t))

\* The positions of such tokens, and the k-th of them in document order.
ButtonsAt(tokens) == {i \in 1 .. Len(tokens) : IsPdfButton(tokens[i])}
KthButton(tokens, k) ==
    CHOOSE i \in ButtonsAt(tokens) :
        Cardinality({j \in ButtonsAt(tokens) : j <= i}) = k

\* C14: extractDownloadLinks returns a nil error and exactly the hrefs, as
\* written, of the anchor start and self-closing tags whose class contains
\* the marker and whose href ends in ".pdf" in any letter case, in document
\* order; the empty sequence when there is no such anchor.
C14_ExtractContract ==
    Returned("extractDownloadLinks") =>
        /\ callRet.err = "nil"
        /\ Len(callRet.links) = Cardinality(ButtonsAt(callArg))
        /\ \A k \in 1 .. Len(callRet.links) :
               callRet.links[k] = HrefOf(callArg[KthButton(callArg, k)])

\* The tokens held an anchor that does not qualify before one whose href
\* ends in ".PDF", which was returned as written.
C14_Witness ==
    /\ Returned("extractDownloadLinks")
    /\ Len(callArg) = 2
    /\ ~IsPdfButton(callArg[1])
    /\ callRet.links = <<UrlAUpper>>

\* The URL has a scheme (url.URL.IsAbs).
IsAbsoluteURL(str) == SchemeLen(str) > 0

\* C15: every URL that extractDownloadLinks returns is absolute: an anchor
\* with the marker class and a relative href is dropped.
C15_Original ==
    Returned("extractDownloadLinks") =>
        \A k \in 1 .. Len(callRet.links) : IsAbsoluteURL(callRet.links[k])

\* The links the loop of line 904 passes to downloadPDF when
\* extractDownloadLinks has returned links: those that line 903 keeps.
LinksPassed(links) == Range(removeDuplicatesFromSlice(links))

\* C17: for every link the download loop passes to downloadPDF, the file
\* name derived at line 752 is not empty and the path joined at line 753 is
\* not the download folder.
C17_Original ==
    Returned("extractDownloadLinks") =>
        \A link \in LinksPassed(callRet.links) :
            /\ getFileNamesFromURLs(link) # <<>>
            /\ PathJoin(getFileNamesFromURLs(link)).kind # "folder"

\* The last path segment of a URL: path.Base of the path that url.Parse
\* gives; for a string that url.Parse rejects, what follows the last slash
\* once the fragment and the query are cut off.
LastPathSegment(rawURL) ==
    IF UrlParse(rawURL).err
      THEN LET p == CutAt(CutAt(rawURL, "#"), "?") IN
           SubSeq(p, LastIndexOf(p, "/") + 1, Len(p))
      ELSE PathBase(UrlParse(rawURL).Path)

\* The characters the file name must not keep: those of <>:"/\|?* and the
\* control characters.
IsUnsafeChar(c) ==
    c \in {"<", ">", ":", "\"", "/", "\\", "|", "?", "*", "\t", "\n", "\r"}

\* c with a space turned into an underscore and a capital into its small
\* letter.
SafeChar(c) ==
    IF c = " " THEN "_"
    ELSE IF c \in DOMAIN UpperToLower THEN UpperToLower[c]
    ELSE c

\* name is seg without its unsafe characters, the others turned by SafeChar
\* and kept in order.
IsSanitized(name, seg) ==
    LET kept == {i \in 1 .. Len(seg) : ~IsUnsafeChar(seg[i])} IN
    /\ Len(name) = Cardinality(kept)
    /\ \A i \in kept :
           name[Cardinality({j \in kept : j <= i})] = SafeChar(seg[i])

----------------------------------------------------------------------------
(* Properties of downloadPDF *)

\* A regular file is stored in the folder under the name derived from link.
FileStoredFor(link) ==
    pdfDir /\ getFileNamesFromURLs(link) \in DOMAIN pdfFiles

\* C18: a downloadPDF call that finds a regular file at the derived path,
\* whichever URL it was stored for and however much of it was written,
\* returns nil, makes no http.Get and leaves the folder and every file in it
\* as they were.
C18_ExistingFileUntouched ==
    [][(IsSave /\ FileStoredFor(CurrentLink))
          => /\ lastSave'.result = "ok"
             /\ ~lastSave'.fetched
             /\ fetchesThisRun' = fetchesThisRun
             /\ pdfFiles' = pdfFiles
             /\ pdfDir' = pdfDir]_vars

\* The latest call was for a URL whose file name is that of a file stored
\* for another URL; it returned nil without an http.Get.
C18_Witness ==
    /\ lastSave.result = "ok"
    /\ ~lastSave.fetched
    /\ FileStoredFor(lastSave.url)
    /\ pdfFiles[getFileNamesFromURLs(lastSave.url)].from # lastSave.url

\* The steps of a downloadPDF call that finds no file, in the order of the
\* claim: fetch, status check, create the folder when it is missing, create
\* the file, write the payload.
SaveOrder == <<"get", "status", "mkdir", "create", "copy">>
StepAt(step) == CHOOSE i \in 1 .. Len(SaveOrder) : SaveOrder[i] = step

\* steps begins with the fetch, goes through the steps of SaveOrder in
\* their order, and leaves out none but the creation of the folder.
InSaveOrder(steps) ==
    /\ steps # <<>>
    /\ steps[1] = "get"
    /\ \A i \in 1 .. Len(steps) : steps[i] \in Range(SaveOrder)
    /\ \A i \in 1 .. (Len(steps) - 1) :
           \/ StepAt(steps[i + 1]) = StepAt(steps[i]) + 1
           \/ steps[i] = "status" /\ steps[i + 1] = "create"

\* C19: a downloadPDF call that finds no file at the derived path takes its
\* steps in the order fetch, status check, folder, file, payload; the folder
\* is created only after the status check and a file only by the file
\* creation; and when the fetch fails or the status is not 200 the call
\* returns an error with the folder and the files as it found them.
C19_SaveStepOrder ==
    [][(IsSave /\ ~FileStoredFor(CurrentLink))
          => /\ lastSave'.fetched
             /\ InSaveOrder(lastSave'.steps)
             /\ pdfDir' # pdfDir
                    => \E i \in 3 .. Len(lastSave'.steps) :
                           lastSave'.steps[i] = "mkdir"
             /\ pdfFiles' # pdfFiles
                    => \E i \in 3 .. Len(lastSave'.steps) :
                           lastSave'.steps[i] = "create"
             /\ Len(lastSave'.steps) <= 2
                    => /\ lastSave'.result = "err"
                       /\ pdfDir' = pdfDir
                       /\ pdfFiles' = pdfFiles]_vars

\* The latest call failed at the status check while the folder was missing,
\* and the folder is still missing.
C19_Witness ==
    /\ lastSave.steps = <<"get", "status">>
    /\ lastSave.result = "err"
    /\ ~pdfDir
    /\ pdfFiles = <<>>

\* The folder holds, under the name derived from link, the file a failed
\* io.Copy of link left: created, and empty or written in part.
PartialFileFor(link, dir, files) ==
    /\ dir
    /\ getFileNamesFromURLs(link) \in DOMAIN files
    /\ files[getFileNamesFromURLs(link)].from = link
    /\ ~files[getFileNamesFromURLs(link)].complete

\* C25: a downloadPDF call whose os.Create succeeded and whose io.Copy failed
\* returns an error and leaves the empty or partial file in the folder; that
\* file stays as it is from then on; and every later downloadPDF call for the
\* same URL finds it, returns nil and makes no http.Get.
C25_PartialFileIsFinal ==
    /\ [][(/\ IsSave
           /\ lastSave'.steps # <<>>
           /\ lastSave'.steps[Len(lastSave'.steps)] = "copy"
           /\ lastSave'.result # "ok")
             => /\ lastSave'.result = "err"
                /\ PartialFileFor(lastSave'.url, pdfDir', pdfFiles')]_vars
    /\ [][\A name \in DOMAIN pdfFiles :
            (pdfDir /\ ~pdfFiles[name].complete)
              => /\ pdfDir'
                 /\ name \in DOMAIN pdfFiles'
                 /\ pdfFiles'[name] = pdfFiles[name]
                 /\ (IsSave /\ CurrentLink = pdfFiles[name].from)
                      => /\ lastSave'.result = "ok"
                         /\ ~lastSave'.fetched
                         /\ fetchesThisRun' = fetchesThisRun]_vars

\* A later execution has called downloadPDF for a URL whose io.Copy failed
\* in an earlier one: the call returned nil without an http.Get and the
\* partial file is still there.
C25_Witness ==
    /\ run > 1
    /\ lastSave.result = "ok"
    /\ ~lastSave.fetched
    /\ ~lastSave.again
    /\ PartialFileFor(lastSave.url, pdfDir, pdfFiles)

----------------------------------------------------------------------------
(* Properties of a whole run *)

\* C20: within one run fetchPageHTML is called at most once for each page
\* index and downloadPDF at most once for each link, whether the attempt
\* failed or not: nothing is tried again.
C20_NoRetries ==
    /\ \A p \in PageIds : fetchCount[p] <= 1
    /\ \A i, j \in 1 .. Len(savesThisRun) :
           savesThisRun[i] = savesThisRun[j] => i = j
    /\ Len(savesThisRun) <= Len(downloadLinks)

\* The loop is over after two downloadPDF calls, neither of which returned
\* nil.
C20_Witness ==
    /\ mainPc = "done"
    /\ run = 1
    /\ Len(savesThisRun) = 2
    /\ succeededURLs = {}

----------------------------------------------------------------------------
(* Progress and the content of the aggregated file *)

\* C21: the run reaches the point where every goroutine it launched has been
\* admitted by the semaphore and has finished and the orchestrator is
\* complete;
\* and in a step taken while concurrentRequestsLimit goroutines sit in
\* fetchPageHTML without any of them returning, no goroutine is admitted and
\* the orchestrator does not complete.
C21_ProgressUnlessFetchHangs ==
    /\ <>(/\ orchPc = "done"
          /\ \A p \in Pages : slotsAcquired[p] = 1 /\ taskPc[p] = "finished")
    /\ [][(Cardinality(InFetch) = concurrentRequestsLimit
              /\ InFetch \subseteq {p \in PageIds : taskPc'[p] = "fetch"})
            => /\ slotsAcquired' = slotsAcquired
               /\ orchPc' # "done"]_vars

\* The run is complete, with more pages than slots: a goroutine had to wait
\* for its admission.
C21_Witness ==
    /\ orchPc = "done"
    /\ totalPages > concurrentRequestsLimit
    /\ \A p \in Pages : taskPc[p] = "finished"

\* What the run has added to the output file so far.
Added == SubSeq(outputFile, Len(initialFile) + 1, Len(outputFile))

\* C22: the output file only grows at its end: each step leaves the content
\* it had as a prefix of the content it has, the content from before the run
\* stays at the front, and a complete run over a file that was not empty
\* has put the body of each appended page behind that content.
C22_AppendOnly ==
    /\ [][HasPrefix(outputFile', outputFile)]_vars
    /\ [](/\ HasPrefix(outputFile, initialFile)
          /\ orchPc = "done" =>
                \A p \in Pages :
                    taskResult[p] = "ok" => Contains(Added, PageBody(offset[p])))

\* A complete run over a file that was not empty has appended a page.
C22_Witness ==
    /\ orchPc = "done"
    /\ initialFile # <<>>
    /\ \E p \in Pages : taskResult[p] = "ok"
    /\ Len(outputFile) > Len(initialFile)

\* The concatenation of part[order[1]], part[order[2]], ...
RECURSIVE ConcatInOrder(_, _)
ConcatInOrder(order, part) ==
    IF order = <<>> THEN <<>>
    ELSE part[Head(order)] \o ConcatInOrder(Tail(order), part)

\* lockOrder lists, once each, the pages whose fetch returned a body.
LockedOnceEach ==
    /\ Range(lockOrder) = {p \in Pages : FetchSucceeded(p)}
    /\ \A i, j \in 1 .. Len(lockOrder) : lockOrder[i] = lockOrder[j] => i = j

Writable(p) ==
    LET body == PageBody(offset[p]) IN
    IF taskResult[p] = "ok" THEN {body}
    ELSE IF taskResult[p] = "openerr" THEN {<<>>}
    ELSE {Prefix(body, n) : n \in 0 .. (Len(body) - 1)}

----------------------------------------------------------------------------
(* Properties of the sequential builds *)

\* C24: scrapePageHTMLWithChrome releases the browser, timeout and allocator
\* contexts on every exit path: once it has returned, with the HTML or with
\* an error, the three cancel functions have been called, in the order
\* browser, timeout, allocator, and no context of the call is left alive;
\* none is alive either while the loop is between two calls.
C24_ContextsReleased ==
    /\ seqPc = "returned" =>
         /\ cancelCalls = <<"browser", "timeout", "allocator">>
         /\ liveContexts = {}
    /\ seqPc \in {"loop", "append", "done"} => liveContexts = {}

\* The second call of a run has returned an error.
C24_Witness ==
    /\ seqPc = "returned"
    /\ chromeErr
    /\ currentPageIndex > 0
    /\ seqOutcome[0] = "ok"


----------------------------------------------------------------------------
(* Properties of the ledger of build 3 *)

\* What this execution of main has added to the ledger file.
LedgerAdded == SubSeq(ledgerFile, Len(ledgerAtStart) + 1, Len(ledgerFile))

\* The links whose iteration of the loop is over.
LinksDone ==
    Prefix(downloadLinks,
           IF mainPc = "done" THEN Len(downloadLinks) ELSE linkIdx - 1)

\* What appendByteToFile, meeting the given fault at each call, writes for
\* the given links, one call a link.
LinesWritten(links, fault) ==
    ConcatInOrder([i \in 1 .. Len(links) |-> i],
                  [i \in 1 .. Len(links) |->
                      appendByteToFile(<<>>, links[i] \o <<"\n">>, fault)])

\* The lines of the given links.
LinesOf(links) == LinesWritten(links, "none")

----------------------------------------------------------------------------
(* The concurrent orchestrator against the sequential one *)

\* Both runs are over, the file was empty before each, and fetchPageHTML
\* failed for the same pages in both.
SameFetchOutcomes ==
    /\ orchPc = "done"
    /\ seqPc = "done"
    /\ initialFile = <<>>
    /\ \A p \in Pages :
          (seqOutcome[p] = "fetcherr") <=> (taskResult[p] = "fetcherr")

\* The pages whose fetch succeeded, and their bodies.
Succeeded == {p \in Pages : taskResult[p] # "fetcherr"}
BodyOf == [p \in Pages |-> PageBody(OffsetOf(p, documentsPerPage))]

\* The pages of set in the order of their indexes.
RECURSIVE InIndexOrder(_)
InIndexOrder(set) ==
    IF set = {} THEN <<>>
    ELSE LET least == CHOOSE p \in set : \A q \in set : p <= q
         IN  <<least>> \o InIndexOrder(set \ {least})

\* The orders in which the pages of set can be listed, each once.
OrdersOf(set) ==
    {order \in [1 .. Cardinality(set) -> set] :
        \A i, j \in 1 .. Cardinality(set) : order[i] = order[j] => i = j}

\* No appendByteToFile call of either run met an open or a write error.
NoAppendError ==
    \A p \in Pages :
        /\ taskResult[p] \in {"ok", "fetcherr"}
        /\ seqOutcome[p] \in {"ok", "fetcherr"}

====
